---- MODULE Spec2Model ----
(***************************************************************************)
(* Model of webob/descriptors.py: raw accessors (environ_getter,           *)
(* header_getter), accessor composition (converter), the deprecation       *)
(* wrapper (deprecated_property) and the header codecs.                    *)
(*                                                                         *)
(* Python strings are sequences of one-character strings; every Python     *)
(* value is a record tagged by its type in field t.                        *)
(***************************************************************************)
EXTENDS Integers, Sequences, FiniteSets, TLC

VARIABLES kind, headerlist, environ, last

vars == <<kind, headerlist, environ, last>>

(***************************************************************************)
(* Bounds                                                                  *)
(***************************************************************************)
\* longest header list in an initial state
MaxHdrs == 2
\* longest remainder (after the scheme word) of a parse_auth input
MaxAuthLen == 5
\* longest tuple assigned to a range accessor
MaxArity == 4

(***************************************************************************)
(* Python values                                                           *)
(***************************************************************************)
None == [t |-> "None"]
Str(s) == [t |-> "str", s |-> s]
Uni(s) == [t |-> "unicode", s |-> s]
PyInt(n) == [t |-> "int", n |-> n]
PyList(xs) == [t |-> "list", items |-> xs]
PyTuple(xs) == [t |-> "tuple", items |-> xs]
PyDict(d) == [t |-> "dict", d |-> d]
AnyETag == [t |-> "AnyETag"]
NoETag == [t |-> "NoETag"]
ETagMatcher(tags) == [t |-> "ETagMatcher", etags |-> tags]
NilAccept(h) == [t |-> "NilAccept", header_name |-> h]
Accept(h, v) == [t |-> "Accept", header_name |-> h, value |-> v]
Range(rs) == [t |-> "Range", ranges |-> rs]
ContentRange(b, e, l) == [t |-> "ContentRange", begin |-> b, end |-> e, length |-> l]
Datetime == [t |-> "datetime"]

\* the outcome of a call: the store it leaves, the value it returns, the
\* exception it raises ("" when it returns normally)
Outcome(store, res, exc) == [store |-> store, res |-> res, exc |-> exc]

\* the outcome of a pure function
Ret(v) == [res |-> v, exc |-> ""]
Raise(e) == [res |-> None, exc |-> e]

(***************************************************************************)
(* String helpers (Python str methods used by the source)                  *)
(***************************************************************************)
RECURSIVE lstrip(_)
lstrip(s) ==
    IF s # <<>> /\ Head(s) = " " THEN lstrip(Tail(s)) ELSE s

RECURSIVE rstrip(_)
rstrip(s) ==
    IF s # <<>> /\ s[Len(s)] = " " THEN rstrip(SubSeq(s, 1, Len(s) - 1)) ELSE s

strip(s) == rstrip(lstrip(s))

\* s.split(c): always at least one segment
RECURSIVE split(_, _)
split(s, c) ==
    IF \E i \in 1..Len(s) : s[i] = c
    THEN LET i == CHOOSE j \in 1..Len(s) : s[j] = c /\ \A k \in 1..(j - 1) : s[k] # c
         IN <<SubSeq(s, 1, i - 1)>> \o split(SubSeq(s, i + 1, Len(s)), c)
    ELSE <<s>>

\* sep.join(items)
RECURSIVE join(_, _)
join(items, sep) ==
    IF items = <<>> THEN <<>>
    ELSE IF Len(items) = 1 THEN items[1]
    ELSE items[1] \o sep \o join(Tail(items), sep)

RECURSIVE MapSeq(_, _)
MapSeq(Op(_), xs) ==
    IF xs = <<>> THEN <<>> ELSE <<Op(Head(xs))>> \o MapSeq(Op, Tail(xs))

RECURSIVE FilterSeq(_, _)
FilterSeq(Test(_), xs) ==
    IF xs = <<>> THEN <<>>
    ELSE (IF Test(Head(xs)) THEN <<Head(xs)>> ELSE <<>>) \o FilterSeq(Test, Tail(xs))

\* all sequences over S of length at most n
RECURSIVE SeqsUpTo(_, _)
SeqsUpTo(S, n) ==
    IF n = 0 THEN {<<>>}
    ELSE LET shorter == SeqsUpTo(S, n - 1)
         IN shorter \cup {Append(s, x) : s \in shorter, x \in S}

Remove(items, i) == SubSeq(items, 1, i - 1) \o SubSeq(items, i + 1, Len(items))

Digit(n) == <<"0", "1", "2", "3", "4", "5", "6", "7", "8", "9">>[n + 1]

(***************************************************************************)
(* Header names and their normalisation (webob.headers.normalize_header)   *)
(***************************************************************************)
Names == {"X-Tags", "x-tags", "Host"}

norm(name) == IF name \in {"X-Tags", "x-tags"} THEN "X-Tags" ELSE name

\* the character set of text: "EUR" stands for U+20AC, a character that
\* ISO-8859-1 cannot encode
Latin1 == {"a", "b", ",", " ", "*", "\"", "=", "-", "/", "e", "s", "t", "y",
           "N", "o", "n", "0", "1", "2", "3", "4", "5", "6", "7", "8", "9"}

\* value.encode('ISO-8859-1') of a unicode value
encodable(s) == \A i \in 1..Len(s) : s[i] \in Latin1

(***************************************************************************)
(* header_getter                                                           *)
(***************************************************************************)
Matches(items, key) == {i \in 1..Len(items) : norm(items[i][1]) = key}

\* mutant: returns the last matching entry
hdr_fget_last(items, key) ==
    IF Matches(items, key) = {} THEN Outcome(items, None, "")
    ELSE LET i == CHOOSE j \in Matches(items, key) :
                      \A k \in Matches(items, key) : k <= j
         IN Outcome(items, items[i][2], "")

\* fget: the loop returns at the first entry whose normalized name is key;
\* falling off the loop returns None
hdr_fget(items, key) ==
    IF Matches(items, key) = {} THEN Outcome(items, None, "")
    ELSE LET i == CHOOSE j \in Matches(items, key) :
                      \A k \in Matches(items, key) : j <= k
         IN Outcome(items, items[i][2], "")

\* fdel's loop: i runs from len(items)-1 down to 0 (here Len(items) down to 1)
RECURSIVE fdel_loop(_, _, _)
fdel_loop(items, i, key) ==
    IF i < 1 THEN items
    ELSE fdel_loop(IF norm(items[i][1]) = key THEN Remove(items, i) ELSE items,
                   i - 1, key)

\* mutant: stops after the first deletion
RECURSIVE fdel_loop_break(_, _, _)
fdel_loop_break(items, i, key) ==
    IF i < 1 THEN items
    ELSE IF norm(items[i][1]) = key THEN Remove(items, i)
    ELSE fdel_loop_break(items, i - 1, key)

hdr_fdel_break(items, key) == Outcome(fdel_loop_break(items, Len(items), key), None, "")

\* mutant: empties the list as soon as one entry matches
hdr_fdel_clear(items, key) ==
    Outcome(IF Matches(items, key) = {} THEN items ELSE <<>>, None, "")

hdr_fdel(items, key) == Outcome(fdel_loop(items, Len(items), key), None, "")

\* fset: fdel, then append (header, value) unless value is None; a unicode
\* value is encoded first, which fails for text outside ISO-8859-1
hdr_fset(items, hdr, value) ==
    LET deleted == hdr_fdel(items, norm(hdr)).store
    IN IF value = None THEN Outcome(deleted, None, "")
       ELSE IF value.t = "unicode"
       THEN IF encodable(value.s)
            THEN Outcome(Append(deleted, <<hdr, Str(value.s)>>), None, "")
            ELSE Outcome(deleted, None, "UnicodeEncodeError")
       ELSE Outcome(Append(deleted, <<hdr, value>>), None, "")

(***************************************************************************)
(* environ_getter: the environment is a function from the keys it holds    *)
(***************************************************************************)
EmptyDict == [x \in {} |-> None]
DictSet(d, k, v) == [x \in DOMAIN d \cup {k} |-> IF x = k THEN v ELSE d[x]]
DictDel(d, k) == [x \in DOMAIN d \ {k} |-> d[x]]

\* fget: environ[key] without a default, environ.get(key, default) with one
env_fget(env, key, has_default, default) ==
    IF key \in DOMAIN env THEN Outcome(env, env[key], "")
    ELSE IF has_default THEN Outcome(env, default, "")
    ELSE Outcome(env, None, "KeyError")

\* fset: environ[key] = val
env_fset(env, key, val) == Outcome(DictSet(env, key, val), None, "")

\* mutant: deleting a missing key is ignored, and a getter without a default
\* deletes as well
env_fdel_quiet(env, key, has_default) == Outcome(DictDel(env, key), None, "")

\* fdel: del environ[key] with a default; without one the property has no
\* deleter and the attribute cannot be deleted
env_fdel(env, key, has_default) ==
    IF ~has_default THEN Outcome(env, None, "AttributeError")
    ELSE IF key \in DOMAIN env THEN Outcome(DictDel(env, key), None, "")
    ELSE Outcome(env, None, "KeyError")

(***************************************************************************)
(* A raw accessor (the property environ_getter or header_getter returns)   *)
(***************************************************************************)
HeaderProp(hdr) == [raw |-> "header", header |-> hdr]
EnvProp(key, has_default, default) ==
    [raw |-> "environ", key |-> key, has_default |-> has_default, default |-> default]

prop_fget(prop, store) ==
    IF prop.raw = "header" THEN hdr_fget(store, norm(prop.header))
    ELSE env_fget(store, prop.key, prop.has_default, prop.default)

prop_fset(prop, store, val) ==
    IF prop.raw = "header" THEN hdr_fset(store, prop.header, val)
    ELSE env_fset(store, prop.key, val)

prop_fdel(prop, store) ==
    IF prop.raw = "header" THEN hdr_fdel(store, norm(prop.header))
    ELSE env_fdel(store, prop.key, prop.has_default)

(***************************************************************************)
(* Python built-ins the converter functions use                            *)
(***************************************************************************)
\* Range.__str__ (webob.byterange): bytes=start-end[,start-end...]
RECURSIVE str_ranges(_)
str_ranges(rs) ==
    IF rs = <<>> THEN <<>>
    ELSE <<Digit(rs[1].items[1].n), "-", Digit(rs[1].items[2].n)>>
         \o (IF Len(rs) > 1 THEN <<",">> ELSE <<>>) \o str_ranges(Tail(rs))

str_Range(v) == <<"b", "y", "t", "e", "s", "=">> \o str_ranges(v.ranges)

\* ContentRange.__str__ (webob.byterange): bytes start-end/length, * for an
\* unknown length
str_ContentRange(v) ==
    <<"b", "y", "t", "e", "s", " ", Digit(v.begin.n), "-", Digit(v.end.n), "/">>
    \o (IF v.length = None THEN <<"*">> ELSE <<Digit(v.length.n)>>)

\* ETagMatcher.__str__ (webob.etag): the tags joined by ", "
str_ETagMatcher(v) == join(v.etags, <<",", " ">>)

\* ETagMatcher.parse (webob.etag): the tag set of a comma-separated value
NonEmpty(s) == s # <<>>

ETagMatcher_parse(s) == ETagMatcher(FilterSeq(NonEmpty, MapSeq(strip, split(s, ","))))

\* serialize_date (webob.datetime_utils): an HTTP date
serialize_date(v) == <<"e", "a", "s", "t">>

\* str(value)
PyStr(v) ==
    CASE v.t = "None" -> <<"N", "o", "n", "e">>
      [] v.t \in {"str", "unicode"} -> v.s
      [] v.t = "int" -> <<Digit(v.n)>>
      [] v.t = "AnyETag" -> <<"*">>
      [] v.t = "NoETag" -> <<>>
      [] v.t = "ETagMatcher" -> str_ETagMatcher(v)
      [] v.t = "Range" -> str_Range(v)
      [] v.t = "ContentRange" -> str_ContentRange(v)
      [] v.t = "NilAccept" -> <<>>
      [] v.t = "Accept" -> v.value

\* bool(value) is False
Falsy(v) ==
    \/ v.t \in {"None", "AnyETag", "NoETag"}
    \/ v.t \in {"str", "unicode"} /\ v.s = <<>>
    \/ v.t \in {"list", "tuple"} /\ v.items = <<>>
    \/ v.t = "dict" /\ DOMAIN v.d = {}
    \/ v.t = "int" /\ v.n = 0

\* value or None
OrNone(s) == IF s = <<>> THEN None ELSE Str(s)

(***************************************************************************)
(* Converter functions                                                     *)
(***************************************************************************)
parse_etag(value, default) ==
    LET v1 == IF value = None THEN <<>> ELSE value.s
        v2 == strip(v1)
    IN IF v2 = <<>> THEN (IF default THEN Ret(AnyETag) ELSE Ret(NoETag))
       ELSE IF v2 = <<"*">> THEN Ret(AnyETag)
       ELSE Ret(ETagMatcher_parse(v2))

serialize_etag(value, default) ==
    IF value = AnyETag THEN (IF default THEN Ret(None) ELSE Ret(Str(<<"*">>)))
    ELSE Ret(Str(PyStr(value)))

\* value.replace('"', '\\"')
RECURSIVE escape_quotes(_)
escape_quotes(s) ==
    IF s = <<>> THEN <<>>
    ELSE (IF Head(s) = "\"" THEN <<"\\", "\"">> ELSE <<Head(s)>>) \o escape_quotes(Tail(s))

serialize_etag_response(value) ==
    IF value.t # "str" THEN Raise("AttributeError")
    ELSE Ret(Str(<<"\"">> \o escape_quotes(value.s) \o <<"\"">>))

serialize_if_range(value) ==
    IF value.t = "datetime" THEN Ret(Str(serialize_date(value)))
    ELSE Ret(OrNone(PyStr(value)))

\* mutant: stringifies before the None test
serialize_range_str(value) ==
    IF value.t \in {"list", "tuple"} /\ Len(value.items) # 2 THEN Raise("ValueError")
    ELSE IF value.t \in {"list", "tuple"} THEN Ret(OrNone(str_Range(Range(<<value>>))))
    ELSE Ret(OrNone(PyStr(value)))

serialize_range(value) ==
    IF value.t \in {"list", "tuple"} /\ Len(value.items) # 2 THEN Raise("ValueError")
    ELSE LET v == IF value.t \in {"list", "tuple"} THEN Range(<<value>>) ELSE value
         IN IF v = None THEN Ret(None) ELSE Ret(OrNone(PyStr(v)))

serialize_int(value) == Ret(Str(PyStr(value)))

serialize_content_range(value) ==
    IF value.t \in {"list", "tuple"} /\ Len(value.items) \notin {2, 3}
    THEN Raise("ValueError")
    ELSE LET v == IF value.t \in {"list", "tuple"}
                  THEN ContentRange(value.items[1], value.items[2],
                                    IF Len(value.items) = 2 THEN None
                                    ELSE value.items[3])
                  ELSE value
         IN Ret(OrNone(strip(PyStr(v))))

parse_list(value) ==
    IF value = None THEN Ret(None)
    ELSE LET v == strip(value.s)
         IN IF v = <<>> THEN Ret(None)
            ELSE Ret(PyList(MapSeq(Str, FilterSeq(NonEmpty, MapSeq(strip, split(v, ","))))))

serialize_list(value) ==
    IF value.t = "unicode"
    THEN (IF encodable(value.s) THEN Ret(Str(value.s)) ELSE Raise("UnicodeEncodeError"))
    ELSE IF value.t = "str" THEN Ret(value)
    ELSE IF value.t \in {"list", "tuple"}
    THEN Ret(Str(join(MapSeq(PyStr, value.items), <<",", " ">>)))
    ELSE Raise("TypeError")

parse_accept(value, header_name) ==
    IF Falsy(value) THEN Ret(NilAccept(header_name))
    ELSE Ret(Accept(header_name, value.s))

\* NilClass(header_name) + value for a list of strings: the accept list of
\* those items
serialize_accept(value, header_name) ==
    IF Falsy(value) \/ value.t = "NilAccept" THEN Ret(None)
    ELSE LET v == IF value.t \in {"list", "tuple"}
                  THEN Accept(header_name, join(MapSeq(PyStr, value.items), <<",", " ">>))
                  ELSE value
         IN Ret(OrNone(strip(PyStr(v))))

(***************************************************************************)
(* Authorization codec.  In a parse_auth input the scheme word is one      *)
(* symbol ("Basic", "Digest", ...): it only occurs first in the value, and *)
(* the source compares it whole.                                           *)
(***************************************************************************)
Lower == {"a", "b", "e", "s", "t", "y", "o", "n"}

\* first index >= i of s that fails Test, Len(s)+1 when none does
RECURSIVE RunEnd(_, _, _)
RunEnd(Test(_), s, i) ==
    IF i > Len(s) \/ ~Test(s[i]) THEN i ELSE RunEnd(Test, s, i + 1)

IsLower(c) == c \in Lower
NotComma(c) == c # ","
IsSpace(c) == c = " "

\* the tail (?:\Z|, *) of _rx_auth_param at index i: the index after it, 0
\* when it does not match
AuthTail(s, i) ==
    IF i > Len(s) THEN i
    ELSE IF s[i] = "," THEN RunEnd(IsSpace, s, i + 1)
    ELSE 0

\* one match of _rx_auth_param = ([a-z]+)=(".*?"|[^,]*)(?:\Z|, *) starting
\* at index i
AuthMatchAt(s, i) ==
    LET j == RunEnd(IsLower, s, i)
        p == j + 1
        closers == {q \in (p + 1)..Len(s) : s[q] = "\"" /\ AuthTail(s, q + 1) # 0}
        m == RunEnd(NotComma, s, p)
    IN IF ~(j > i /\ j <= Len(s) /\ s[j] = "=")
       THEN [ok |-> FALSE, k |-> <<>>, v |-> <<>>, next |-> i + 1]
       ELSE IF p <= Len(s) /\ s[p] = "\"" /\ closers # {}
       THEN LET q == CHOOSE x \in closers : \A y \in closers : x <= y
            IN [ok |-> TRUE, k |-> SubSeq(s, i, j - 1), v |-> SubSeq(s, p, q),
                next |-> AuthTail(s, q + 1)]
       ELSE [ok |-> TRUE, k |-> SubSeq(s, i, j - 1), v |-> SubSeq(s, p, m - 1),
             next |-> AuthTail(s, m)]

\* v.strip('"')
RECURSIVE strip_quotes(_)
strip_quotes(s) ==
    IF s # <<>> /\ Head(s) = "\"" THEN strip_quotes(Tail(s))
    ELSE IF s # <<>> /\ s[Len(s)] = "\"" THEN strip_quotes(SubSeq(s, 1, Len(s) - 1))
    ELSE s

\* the loop over _rx_auth_param.findall(params), scanning from index i
RECURSIVE auth_params_from(_, _, _)
auth_params_from(s, i, r) ==
    IF i > Len(s) THEN r
    ELSE LET mt == AuthMatchAt(s, i)
         IN IF mt.ok
            THEN auth_params_from(s, mt.next, DictSet(r, mt.k, Str(strip_quotes(mt.v))))
            ELSE auth_params_from(s, i + 1, r)

parse_auth_params(params) == PyDict(auth_params_from(params, 1, EmptyDict))

known_auth_schemes ==
    {<<"Basic">>, <<"Digest">>, <<"WSSE">>, <<"HMACDigest">>, <<"GoogleLogin">>,
     <<"Cookie">>, <<"OpenID">>}

\* mutant: every known scheme without a double quote stays opaque
parse_auth_quote(val) ==
    IF val = None THEN Ret(None)
    ELSE IF ~\E i \in 1..Len(val.s) : val.s[i] = " " THEN Raise("ValueError")
    ELSE LET i == RunEnd(LAMBDA c : c # " ", val.s, 1)
             authtype == SubSeq(val.s, 1, i - 1)
             params == SubSeq(val.s, i + 1, Len(val.s))
         IN IF authtype \in known_auth_schemes /\ (\E k \in 1..Len(params) : params[k] = "\"")
            THEN Ret(PyTuple(<<Str(authtype), parse_auth_params(params)>>))
            ELSE Ret(PyTuple(<<Str(authtype), Str(params)>>))

\* val.split(' ', 1) unpacks into two parts only when val holds a space
parse_auth(val) ==
    IF val = None THEN Ret(None)
    ELSE IF ~\E i \in 1..Len(val.s) : val.s[i] = " " THEN Raise("ValueError")
    ELSE LET i == RunEnd(LAMBDA c : c # " ", val.s, 1)
             authtype == SubSeq(val.s, 1, i - 1)
             params == SubSeq(val.s, i + 1, Len(val.s))
         IN IF authtype \in known_auth_schemes
            THEN IF authtype = <<"Basic">> /\ ~(\E k \in 1..Len(params) : params[k] = "\"")
                 THEN Ret(PyTuple(<<Str(authtype), Str(params)>>))
                 ELSE Ret(PyTuple(<<Str(authtype), parse_auth_params(params)>>))
            ELSE Ret(PyTuple(<<Str(authtype), Str(params)>>))

\* '%s="%s"' % (k, v) for the items of a mapping with at most one key
auth_items(d) ==
    IF DOMAIN d = {} THEN <<>>
    ELSE LET k == CHOOSE x \in DOMAIN d : TRUE
         IN k \o <<"=", "\"">> \o PyStr(d[k]) \o <<"\"">>

serialize_auth(val) ==
    IF val.t \in {"list", "tuple"}
    THEN IF Len(val.items) # 2 THEN Raise("ValueError")
         ELSE LET authtype == val.items[1]
                  params == IF val.items[2].t = "dict"
                            THEN Str(auth_items(val.items[2].d))
                            ELSE val.items[2]
              IN IF params.t # "str" THEN Raise("AssertionError")
                 ELSE Ret(Str(PyStr(authtype) \o <<" ">> \o params.s))
    ELSE Ret(val)

(***************************************************************************)
(* A codec: the parse/serialize pair and converter_args of a converter     *)
(***************************************************************************)
Codec(name, arg) == [name |-> name, arg |-> arg]

Parse(codec, value) ==
    CASE codec.name = "etag" -> parse_etag(value, codec.arg)
      [] codec.name = "list" -> parse_list(value)
      [] codec.name = "accept" -> parse_accept(value, codec.arg)
      [] codec.name = "auth" -> parse_auth(value)

Serialize(codec, value) ==
    CASE codec.name = "etag" -> serialize_etag(value, codec.arg)
      [] codec.name = "etag_response" -> serialize_etag_response(value)
      [] codec.name = "if_range" -> serialize_if_range(value)
      [] codec.name = "range" -> serialize_range(value)
      [] codec.name = "content_range" -> serialize_content_range(value)
      [] codec.name = "list" -> serialize_list(value)
      [] codec.name = "accept" -> serialize_accept(value, codec.arg)
      [] codec.name = "auth" -> serialize_auth(value)
      [] codec.name = "int" -> serialize_int(value)

(***************************************************************************)
(* converter                                                               *)
(***************************************************************************)
\* fget: parse(hget(r), *converter_args)
conv_fget(prop, codec, store) ==
    LET h == prop_fget(prop, store)
    IN IF h.exc # "" THEN h
       ELSE LET p == Parse(codec, h.res) IN Outcome(store, p.res, p.exc)

\* mutant: the raw setter's delete runs before serialize
conv_fset_late(prop, codec, store, val) ==
    LET cleared == prop_fdel(prop, store).store
        s == IF val # None THEN Serialize(codec, val) ELSE Ret(None)
    IN IF s.exc # "" THEN Outcome(cleared, None, s.exc)
       ELSE prop_fset(prop, store, s.res)

\* fset: serialize unless val is None, then hset(r, val)
conv_fset(prop, codec, store, val) ==
    LET s == IF val # None THEN Serialize(codec, val) ELSE Ret(None)
    IN IF s.exc # "" THEN Outcome(store, None, s.exc)
       ELSE prop_fset(prop, store, s.res)

\* fdel is prop.fdel
conv_fdel(prop, codec, store) == prop_fdel(prop, store)

\* etag_property(key, default, rfc_section)
etag_prop(key) == EnvProp(key, TRUE, None)
etag_codec(default) == Codec("etag", default)

\* accept_property(header, rfc_section): key is header_to_key(header)
accept_prop(key) == EnvProp(key, TRUE, None)
accept_codec(hdr) == Codec("accept", hdr)

(***************************************************************************)
(* An accessor: a raw property, or a converter over one                    *)
(***************************************************************************)
Accessor(prop, codec) == [prop |-> prop, codec |-> codec]
Raw == Codec("raw", None)

acc_fget(acc, store) ==
    IF acc.codec = Raw THEN prop_fget(acc.prop, store)
    ELSE conv_fget(acc.prop, acc.codec, store)

acc_fset(acc, store, val) ==
    IF acc.codec = Raw THEN prop_fset(acc.prop, store, val)
    ELSE conv_fset(acc.prop, acc.codec, store, val)

acc_fdel(acc, store) ==
    IF acc.codec = Raw THEN prop_fdel(acc.prop, store)
    ELSE conv_fdel(acc.prop, acc.codec, store)

\* obj.attr = value for the outcome r of reading value: the result is the
\* value that was read
written(acc, store, r) ==
    IF r.exc # "" THEN r
    ELSE LET w == acc_fset(acc, store, r.res) IN Outcome(w.store, r.res, w.exc)

\* value = obj.attr; obj.attr = value (the read is made once)
write_back(acc, store) ==
    CHOOSE out \in {written(acc, store, r) : r \in {acc_fget(acc, store)}} : TRUE

(***************************************************************************)
(* deprecated_property: a call reports the signals it emitted and the      *)
(* calls it delegated to the wrapped descriptor                            *)
(***************************************************************************)
\* mutant: strict mode warns and goes on
warn_lenient(warning) == [signals |-> 1, exc |-> ""]

\* warn: raises DeprecationWarning unless self.warning, else warnings.warn
warn(warning) == [signals |-> 1, exc |-> IF warning THEN "" ELSE "DeprecationWarning"]

Traced(out, signals, delegated) ==
    [store |-> out.store, res |-> out.res, exc |-> out.exc,
     signals |-> signals, delegated |-> delegated]

\* __get__ on an instance
dep_get(warning, acc, store) ==
    LET w == warn(warning)
    IN IF w.exc # "" THEN Traced(Outcome(store, None, w.exc), w.signals, 0)
       ELSE Traced(acc_fget(acc, store), w.signals, 1)

\* __set__
dep_set(warning, acc, store, value) ==
    LET w == warn(warning)
    IN IF w.exc # "" THEN Traced(Outcome(store, None, w.exc), w.signals, 0)
       ELSE Traced(acc_fset(acc, store, value), w.signals, 1)

\* __delete__
dep_delete(warning, acc, store) ==
    LET w == warn(warning)
    IN IF w.exc # "" THEN Traced(Outcome(store, None, w.exc), w.signals, 0)
       ELSE Traced(acc_fdel(acc, store), w.signals, 1)

(***************************************************************************)
(* State machine.  kind says what the object is: a response holds          *)
(* _headerlist, a request holds environ.  Header is the header name the    *)
(* header accessors of the class are bound to, Key the environment key.    *)
(* last records the latest call: the accessor, its flag and argument, the  *)
(* store before it, and what it returned or raised.                        *)
(***************************************************************************)
Key == "HTTP_IF_MATCH"
Header == "x-tags"

\* header values of an initial state: no item, one padded item, two items
InitValues == {Str(<<",">>), Str(<<" ", "a">>), Str(<<"a", ",", "b">>)}
InitEntries == {<<n, v>> : n \in Names, v \in InitValues}

\* values of Key in an initial environment: empty, blank, any, one tag
EnvValues == {Str(<<>>), Str(<<" ">>), Str(<<"*">>), Str(<<"a">>)}
BaseEnv == [x \in {"PATH_INFO"} |-> Str(<<"/">>)]

Store == IF kind = "response" THEN headerlist ELSE environ

\* the accessors defined on the object's class
RawAccessors ==
    IF kind = "response" THEN {Accessor(HeaderProp(Header), Raw)}
    ELSE {Accessor(EnvProp(Key, d, None), Raw) : d \in BOOLEAN}

ReadableAccessors ==
    IF kind = "response" THEN {Accessor(HeaderProp(Header), Codec("list", None))}
    ELSE {Accessor(etag_prop(Key), etag_codec(d)) : d \in BOOLEAN}
         \cup {Accessor(accept_prop(Key), accept_codec("Accept"))}

WriteOnlyAccessors ==
    IF kind = "response"
    THEN {Accessor(HeaderProp(Header), Codec(c, None)) : c \in {"range", "content_range"}}
    ELSE {}

ConvAccessors == ReadableAccessors \cup WriteOnlyAccessors

\* tuples and lists of every length up to MaxArity
RECURSIVE Counting(_)
Counting(n) == IF n = 0 THEN <<>> ELSE Append(Counting(n - 1), PyInt(n - 1))

Tuples == {PyTuple(Counting(n)) : n \in 0..MaxArity} \cup {PyList(Counting(1))}

\* the values a caller assigns through an accessor
SetValues(acc) ==
    {None} \cup
    CASE acc.codec.name = "raw" ->
            {Str(<<"a">>), Str(<<>>), Uni(<<"b">>), Uni(<<"EUR">>)}
      [] acc.codec.name = "list" ->
            {Str(<<"a", ",", "b">>), Uni(<<"EUR">>), PyList(<<>>),
             PyList(<<Str(<<"a">>)>>), PyList(<<Str(<<"a">>), Str(<<"b">>)>>)}
      [] acc.codec.name \in {"range", "content_range"} -> Tuples
      [] acc.codec.name = "etag" -> {AnyETag, NoETag, ETagMatcher(<<<<"a">>>>)}
      [] acc.codec.name = "accept" ->
            {NilAccept("Accept"), PyList(<<>>), Str(<<"a">>), PyList(<<Str(<<"a">>)>>)}

Call(op, acc, flag, arg, out, signals, delegated) ==
    [op |-> op, acc |-> acc, flag |-> flag, arg |-> arg, pre |-> Store,
     res |-> out.res, exc |-> out.exc, signals |-> signals, delegated |-> delegated]

NoCall ==
    [op |-> "init", acc |-> Accessor(HeaderProp(""), Raw), flag |-> TRUE, arg |-> None,
     pre |-> <<>>, res |-> None, exc |-> "", signals |-> 0, delegated |-> 0]

Init ==
    /\ kind \in {"response", "request"}
    /\ IF kind = "response"
       THEN /\ headerlist \in SeqsUpTo(InitEntries, MaxHdrs)
            /\ environ = EmptyDict
       ELSE /\ headerlist = <<>>
            /\ environ \in {BaseEnv} \cup {DictSet(BaseEnv, Key, v) : v \in EnvValues}
    /\ last = NoCall

Step(out) ==
    /\ IF kind = "response"
       THEN headerlist' = out.store /\ UNCHANGED environ
       ELSE environ' = out.store /\ UNCHANGED headerlist
    /\ UNCHANGED kind

\* value = obj.attr
Get ==
    \E acc \in RawAccessors \cup ReadableAccessors :
        LET out == acc_fget(acc, Store)
        IN Step(out) /\ last' = Call("get", acc, TRUE, None, out, 0, 0)

\* obj.attr = value
Set ==
    \E acc \in RawAccessors \cup ConvAccessors : \E value \in SetValues(acc) :
        LET out == acc_fset(acc, Store, value)
        IN Step(out) /\ last' = Call("set", acc, TRUE, value, out, 0, 0)

\* del obj.attr
Delete ==
    \E acc \in RawAccessors \cup ReadableAccessors :
        LET out == acc_fdel(acc, Store)
        IN Step(out) /\ last' = Call("delete", acc, TRUE, None, out, 0, 0)

\* obj.attr = obj.attr
WriteBack ==
    \E acc \in ReadableAccessors :
        LET out == write_back(acc, Store)
        IN Step(out) /\ last' = Call("write_back", acc, TRUE, None, out, 0, 0)

\* the same three through deprecated_property(descriptor, attr, message, warning)
DeprecatedValues == {None, Str(<<"a">>)}

DeprecatedGet ==
    \E acc \in RawAccessors : \E warning \in BOOLEAN :
        LET out == dep_get(warning, acc, Store)
        IN Step(out)
           /\ last' = Call("dep_get", acc, warning, None, out, out.signals, out.delegated)

DeprecatedSet ==
    \E acc \in RawAccessors : \E warning \in BOOLEAN : \E value \in DeprecatedValues :
        LET out == dep_set(warning, acc, Store, value)
        IN Step(out)
           /\ last' = Call("dep_set", acc, warning, value, out, out.signals, out.delegated)

DeprecatedDelete ==
    \E acc \in RawAccessors : \E warning \in BOOLEAN :
        LET out == dep_delete(warning, acc, Store)
        IN Step(out)
           /\ last' = Call("dep_delete", acc, warning, None, out, out.signals, out.delegated)

Next ==
    \/ Get
    \/ Set
    \/ Delete
    \/ WriteBack
    \/ DeprecatedGet
    \/ DeprecatedSet
    \/ DeprecatedDelete

Spec == Init /\ [][Next]_vars

(***************************************************************************)
(* The converter functions called directly: an initial state holds one     *)
(* pending call, the action makes it.                                      *)
(***************************************************************************)
Codecs ==
    {Codec("etag", d) : d \in BOOLEAN}
    \cup {Codec(c, None) : c \in {"etag_response", "if_range", "range", "content_range",
                                  "list", "auth", "int"}}
    \cup {Codec("accept", "Accept")}

SerializeValues(codec) ==
    {None} \cup
    CASE codec.name = "etag" -> {AnyETag, NoETag, ETagMatcher(<<<<"a">>>>), Str(<<"a">>)}
      [] codec.name = "etag_response" -> {Str(<<"a">>), Str(<<"a", "\"", "b">>)}
      [] codec.name = "if_range" -> {Datetime, Str(<<>>), Str(<<"a">>), AnyETag}
      [] codec.name \in {"range", "content_range"} -> Tuples \cup {Str(<<>>), Str(<<" ">>)}
      [] codec.name = "list" -> SetValues(Accessor(HeaderProp(Header), codec)) \cup {PyInt(1)}
      [] codec.name = "accept" -> SetValues(Accessor(accept_prop(Key), codec)) \cup {Str(<<" ">>)}
      [] codec.name = "auth" ->
            {Str(<<"Basic", " ", "a">>),
             PyTuple(<<Str(<<"Basic">>), Str(<<"a">>)>>),
             PyTuple(<<Str(<<"Digest">>), PyDict(DictSet(EmptyDict, <<"a">>, Str(<<"b">>)))>>),
             PyTuple(<<Str(<<"Basic">>)>>),
             PyList(<<Str(<<"Basic">>), PyInt(1)>>)}
      [] codec.name = "int" -> {PyInt(0), PyInt(1)}

AuthWords == {<<>>, <<"Basic">>, <<"Digest">>, <<"Bearer">>}
AuthChars == {"a", "=", "\"", ",", " "}
AuthInputs == {None} \cup {Str(w \o s) : w \in AuthWords, s \in SeqsUpTo(AuthChars, MaxAuthLen)}

Pure(op, codec, arg, out) ==
    [op |-> op, acc |-> Accessor(HeaderProp(""), codec), flag |-> TRUE, arg |-> arg,
     pre |-> <<>>, res |-> out.res, exc |-> out.exc, signals |-> 0, delegated |-> 0]

InitCodec ==
    /\ kind = "none"
    /\ headerlist = <<>>
    /\ environ = EmptyDict
    /\ \/ \E codec \in Codecs : \E value \in SerializeValues(codec) :
             last = Pure("pending_serialize", codec, value, Ret(None))
       \/ \E val \in AuthInputs :
             last = Pure("pending_parse_auth", Codec("auth", None), val, Ret(None))

CallSerialize ==
    /\ last.op = "pending_serialize"
    /\ last' = Pure("serialize", last.acc.codec, last.arg, Serialize(last.acc.codec, last.arg))
    /\ UNCHANGED <<kind, headerlist, environ>>

CallParseAuth ==
    /\ last.op = "pending_parse_auth"
    /\ last' = Pure("parse_auth", last.acc.codec, last.arg, Parse(last.acc.codec, last.arg))
    /\ UNCHANGED <<kind, headerlist, environ>>

NextCodec ==
    \/ CallSerialize
    \/ CallParseAuth

SpecCodec == InitCodec /\ [][NextCodec]_vars

(***************************************************************************)
(* Properties                                                              *)
(***************************************************************************)
K == norm(Header)
RawHeader == Accessor(HeaderProp(Header), Raw)
OnHeader == kind = "response" /\ last.acc.prop = HeaderProp(Header)

NotK(entry) == norm(entry[1]) # K
Others(items) == FilterSeq(NotK, items)

HasKey(store) == IF kind = "response" THEN Matches(store, K) # {} ELSE Key \in DOMAIN store

\* the value header_getter stores for a written value
Stored(value) == IF value.t = "unicode" THEN Str(value.s) ELSE value

\* C1: a write through header_getter's setter that returns leaves, for a
\* non-null value, exactly one entry with the accessor's normalized name,
\* which is the last entry of the list and holds the written value; for None
\* it leaves no entry with that name.
C1_SetLeavesOneEntryAtEnd ==
    (last.op = "set" /\ last.acc = RawHeader /\ last.exc = "") =>
        IF last.arg = None
        THEN Matches(headerlist, K) = {}
        ELSE /\ Matches(headerlist, K) = {Len(headerlist)}
             /\ headerlist[Len(headerlist)] = <<Header, Stored(last.arg)>>

C1_Witness ==
    /\ last.op = "set" /\ last.acc = RawHeader /\ last.exc = ""
    /\ last.arg # None
    /\ Cardinality(Matches(last.pre, K)) >= 2
    /\ Matches(headerlist, K) = {Len(headerlist)}

FirstMatch(items) == CHOOSE i \in Matches(items, K) : \A j \in Matches(items, K) : i <= j
LastMatch(items) == CHOOSE i \in Matches(items, K) : \A j \in Matches(items, K) : j <= i

\* C2 as stated: get returns the value of the last entry whose normalized
\* name is the accessor's key, None when no entry matches.
C2_GetReturnsLastMatch ==
    (last.op = "get" /\ last.acc = RawHeader) =>
        /\ last.exc = ""
        /\ last.res = IF Matches(last.pre, K) = {} THEN None
                      ELSE last.pre[LastMatch(last.pre)][2]

\* C2 amended: get returns the value of the first entry whose normalized
\* name is the accessor's key, None when no entry matches.
C2_GetReturnsFirstMatch ==
    (last.op = "get" /\ last.acc = RawHeader) =>
        /\ last.exc = ""
        /\ last.res = IF Matches(last.pre, K) = {} THEN None
                      ELSE last.pre[FirstMatch(last.pre)][2]

C2_Witness ==
    /\ last.op = "get" /\ last.acc = RawHeader
    /\ Cardinality(Matches(last.pre, K)) >= 2
    /\ last.pre[FirstMatch(last.pre)][2] # last.pre[LastMatch(last.pre)][2]
    /\ last.res = last.pre[FirstMatch(last.pre)][2]

\* the raw value a write through a composed accessor hands to the raw setter
WrittenRaw == IF last.arg = None THEN Ret(None) ELSE Serialize(last.acc.codec, last.arg)

\* C3: after a write of None through a composed accessor (or of a value the
\* serializer turns into None) the store has no entry for the field, on a
\* header list and on an environment alike.
C3_WriteNoneRemovesField ==
    (last.op = "set" /\ last.acc.codec # Raw /\ last.exc = "" /\ WrittenRaw.res = None) =>
        ~HasKey(Store)

\* C4 as stated: delete through a raw accessor never fails; it leaves the
\* store unchanged when no entry matches and removes every entry otherwise.
C4_DeleteNeverFails ==
    (last.op = "delete" /\ last.acc.codec = Raw) =>
        /\ last.exc = ""
        /\ ~HasKey(Store)
        /\ ~HasKey(last.pre) => Store = last.pre

\* C4 amended: delete through header_getter never fails, leaves the list
\* unchanged when no entry matches and removes every matching entry
\* otherwise.  Delete through environ_getter with a default removes the key
\* when the environment holds it and raises KeyError, leaving the
\* environment unchanged, when it does not; environ_getter without a default
\* has no deleter: delete raises AttributeError and changes nothing.
C4_DeleteByAccessorKind ==
    (last.op = "delete" /\ last.acc.codec = Raw) =>
        IF kind = "response"
        THEN /\ last.exc = ""
             /\ Matches(headerlist, K) = {}
             /\ headerlist = Others(last.pre)
             /\ Matches(last.pre, K) = {} => headerlist = last.pre
        ELSE IF ~last.acc.prop.has_default
        THEN last.exc = "AttributeError" /\ environ = last.pre
        ELSE IF Key \in DOMAIN last.pre
        THEN /\ last.exc = ""
             /\ DOMAIN environ = DOMAIN last.pre \ {Key}
             /\ \A k \in DOMAIN environ : environ[k] = last.pre[k]
        ELSE last.exc = "KeyError" /\ environ = last.pre

C4_Witness ==
    /\ last.op = "delete" /\ last.acc.codec = Raw /\ kind = "request"
    /\ last.acc.prop.has_default
    /\ Key \notin DOMAIN last.pre
    /\ last.exc = "KeyError"

\* what the wrapped accessor does from the same store
Unwrapped ==
    CASE last.op = "dep_get" -> acc_fget(last.acc, last.pre)
      [] last.op = "dep_set" -> acc_fset(last.acc, last.pre, last.arg)
      [] last.op = "dep_delete" -> acc_fdel(last.acc, last.pre)

ViaDeprecated == last.op \in {"dep_get", "dep_set", "dep_delete"}

SameAsUnwrapped ==
    /\ last.res = Unwrapped.res
    /\ last.exc = Unwrapped.exc
    /\ Store = Unwrapped.store

\* C5 as stated: in either mode a get, set or delete through the wrapper
\* emits one signal, delegates once, and returns and does what the wrapped
\* accessor does.
C5_OneSignalOneDelegation ==
    ViaDeprecated => last.signals = 1 /\ last.delegated = 1 /\ SameAsUnwrapped

\* C5 amended: in warning mode a get, set or delete through the wrapper
\* emits one signal, delegates once, and returns and does what the wrapped
\* accessor does; in strict mode it emits one signal, raises
\* DeprecationWarning, never delegates and leaves the store unchanged.
C5_DelegatesOnlyInWarningMode ==
    ViaDeprecated =>
        IF last.flag
        THEN last.signals = 1 /\ last.delegated = 1 /\ SameAsUnwrapped
        ELSE /\ last.signals = 1 /\ last.delegated = 0
             /\ last.exc = "DeprecationWarning"
             /\ Store = last.pre

C5_Witness ==
    /\ last.op = "dep_set" /\ ~last.flag /\ last.arg # None
    /\ last.exc = "DeprecationWarning"
    /\ last.delegated = 0
    /\ Unwrapped.store # last.pre

\* C7: after value = obj.attr; obj.attr = value through the ETag accessor
\* (either default flag) or the List accessor, a read returns the value that
\* was read, and doing the same again leaves the store as it is.
C7_WriteBackIdempotent ==
    (last.op = "write_back" /\ last.acc.codec.name \in {"etag", "list"} /\ last.exc = "") =>
        /\ acc_fget(last.acc, Store).exc = ""
        /\ acc_fget(last.acc, Store).res = last.res
        /\ write_back(last.acc, Store).store = Store

WrongArity ==
    /\ last.arg.t \in {"list", "tuple"}
    /\ \/ last.acc.codec.name = "range" /\ Len(last.arg.items) # 2
       \/ last.acc.codec.name = "content_range" /\ Len(last.arg.items) \notin {2, 3}

C10_OtherEntriesUnchanged ==
    (OnHeader /\ last.op # "init") =>
        /\ Others(headerlist) = Others(last.pre)
        /\ last.op \in {"get", "dep_get"} => headerlist = last.pre

C10_Witness ==
    /\ OnHeader /\ last.op \in {"set", "delete"} /\ last.acc = RawHeader
    /\ Others(last.pre) # <<>>
    /\ Matches(last.pre, K) # {}
    /\ \E i \in Matches(last.pre, K) : i < Len(last.pre)
    /\ headerlist # last.pre

\* C6 as stated: every codec's serialize, called on None, returns None.
C6_SerializeNoneIsNone ==
    (last.op = "serialize" /\ last.arg = None) => last.exc = "" /\ last.res = None

\* C6 amended: called on None, serialize returns None for the Range, Accept
\* and Auth codecs; it returns the string "None" for the ETag request,
\* If-Range, Content-Range and Integer codecs; it raises AttributeError for
\* the ETag response codec and TypeError for the List codec.
C6_SerializeNoneByCodec ==
    (last.op = "serialize" /\ last.arg = None) =>
        CASE last.acc.codec.name \in {"range", "accept", "auth"} ->
                last.exc = "" /\ last.res = None
          [] last.acc.codec.name \in {"etag", "if_range", "content_range", "int"} ->
                last.exc = "" /\ last.res = Str(<<"N", "o", "n", "e">>)
          [] last.acc.codec.name = "etag_response" -> last.exc = "AttributeError"
          [] last.acc.codec.name = "list" -> last.exc = "TypeError"

C6_Witness ==
    /\ last.op = "serialize" /\ last.arg = None
    /\ last.acc.codec.name = "list"
    /\ last.exc = "TypeError"

\* the scheme and the remainder of a value: the text before and after its
\* first space
Spaces(s) == {i \in 1..Len(s) : s[i] = " "}
FirstSpace(s) == CHOOSE i \in Spaces(s) : \A j \in Spaces(s) : i <= j
SchemeOf(s) == SubSeq(s, 1, FirstSpace(s) - 1)
RemainderOf(s) == SubSeq(s, FirstSpace(s) + 1, Len(s))
HasQuote(s) == \E i \in 1..Len(s) : s[i] = "\""

KnownSchemes ==
    {<<"Basic">>, <<"Digest">>, <<"WSSE">>, <<"HMACDigest">>, <<"GoogleLogin">>,
     <<"Cookie">>, <<"OpenID">>}

ParsedAuth == last.op = "parse_auth" /\ last.arg # None /\ Spaces(last.arg.s) # {}

\* C8 as stated: parse_auth returns the scheme and, exactly when the scheme
\* is known and the remainder holds a double quote, the remainder parsed
\* as a mapping; in every other case the remainder unchanged.
C8_MappingIffKnownAndQuoted ==
    ParsedAuth =>
        /\ last.exc = ""
        /\ last.res.t = "tuple" /\ Len(last.res.items) = 2
        /\ last.res.items[1] = Str(SchemeOf(last.arg.s))
        /\ IF SchemeOf(last.arg.s) \in KnownSchemes /\ HasQuote(RemainderOf(last.arg.s))
           THEN last.res.items[2] = parse_auth_params(RemainderOf(last.arg.s))
           ELSE last.res.items[2] = Str(RemainderOf(last.arg.s))

\* C8 amended: for a value that holds a space, parse_auth returns the scheme
\* and, exactly when the scheme is known and is not Basic with a remainder
\* free of double quotes, the remainder parsed as a mapping; in every other
\* case (an unknown scheme, or Basic without a double quote) the remainder
\* unchanged.
C8_MappingUnlessBasicUnquoted ==
    ParsedAuth =>
        /\ last.exc = ""
        /\ last.res.t = "tuple" /\ Len(last.res.items) = 2
        /\ last.res.items[1] = Str(SchemeOf(last.arg.s))
        /\ IF /\ SchemeOf(last.arg.s) \in KnownSchemes
              /\ ~(SchemeOf(last.arg.s) = <<"Basic">> /\ ~HasQuote(RemainderOf(last.arg.s)))
           THEN last.res.items[2] = parse_auth_params(RemainderOf(last.arg.s))
           ELSE last.res.items[2] = Str(RemainderOf(last.arg.s))

C8_Witness ==
    /\ ParsedAuth
    /\ SchemeOf(last.arg.s) = <<"Digest">>
    /\ ~HasQuote(RemainderOf(last.arg.s))
    /\ last.res.items[2].t = "dict"
    /\ DOMAIN last.res.items[2].d # {}

====
